---- MODULE Spec2Model ----
(***************************************************************************)
(* Model of ignite/engine/events.py: the event kinds and their filters     *)
(* (CallableEventWithFilter, Events), event groups (EventsList), the       *)
(* engine state record (State) and the weak removal handle                 *)
(* (RemovableEventHandle).                                                 *)
(***************************************************************************)
EXTENDS Integers, Sequences, FiniteSets, TLC

VARIABLES events, callRes, lists, orRes, state, attrRes, regs, handles, alive, trace

vars == <<events, callRes, lists, orRes, state, attrRes, regs, handles, alive, trace>>

(***************************************************************************)
(* Bounds                                                                  *)
(***************************************************************************)
MaxNew == 1          \* filtered events built by __call__ in one behaviour
MaxArg == 3          \* integer every / once arguments range over -1..MaxArg
MaxCounter == 7      \* counters passed to a filter range over 1..MaxCounter
MaxLists == 1        \* EventsList objects built in one behaviour
MaxLen == 4          \* members of an EventsList
MaxGroup == 3        \* members of a group that handles refer to
MaxVal == 1          \* values of State's keyword arguments range over 0..MaxVal
MaxProgress == 2     \* the engine advances iteration and epoch up to MaxProgress
MaxHandlers == 1     \* handler callables
MaxHandles == 2      \* RemovableEventHandle objects built in one behaviour
MaxFire == 6         \* the engine fires ITERATION_STARTED up to MaxFire times

(***************************************************************************)
(* Python values passed as arguments: None, integers, a non-integral       *)
(* number (v is the value in tenths), a string, and callables.             *)
(***************************************************************************)
None == [t |-> "none", v |-> 0]
PyInt(n) == [t |-> "int", v |-> n]
PyFloat(tenths) == [t |-> "float", v |-> tenths]
PyStr(i) == [t |-> "str", v |-> i]
\* user callables: 1 takes (engine, event); 2 takes (engine) only
UserFn(i) == [t |-> "user_fn", v |-> i]

CallableTypes == {"user_fn", "every_wrapper", "once_wrapper", "default_event_filter"}

callable(x) == x.t \in CallableTypes

\* isinstance(x, numbers.Integral)
IsIntegral(x) == x.t = "int"

(***************************************************************************)
(* The filters                                                             *)
(***************************************************************************)
default_event_filter == [t |-> "default_event_filter", v |-> 0]

\* an every_event_filter that returns the wrapper of once_event_filter
every_event_filter_Once(every) == [t |-> "once_wrapper", v |-> every]

\* every_event_filter(every): the closure over `every`
every_event_filter(every) == [t |-> "every_wrapper", v |-> every]

\* a wrapper that tests the operands the other way round
every_wrapper_Swapped(every, event) == every % event = 0

\* the wrapper returned by every_event_filter(every), called with (engine, event)
every_wrapper(every, event) == event % every = 0

\* once_event_filter(once): the closure over `once`
once_event_filter(once) == [t |-> "once_wrapper", v |-> once]

\* a wrapper that keeps firing from `once` on
once_wrapper_AtLeast(once, event) == event >= once

\* the wrapper returned by once_event_filter(once), called with (engine, event)
once_wrapper(once, event) == event = once

\* the body of the user's filter (the docstring's custom_event_filter)
custom_event_filter(event) == event \in {1, 2, 5, 10, 50, 100}

\* calling a filter f with (engine, event); a user function that does not
\* take (engine, event) has no result: the call raises TypeError, and the
\* signature check of __call__ lets no event carry such a filter
CallFilter(f, event) ==
    CASE f.t = "default_event_filter" -> TRUE
      [] f.t = "every_wrapper" -> every_wrapper(f.v, event)
      [] f.t = "once_wrapper" -> once_wrapper(f.v, event)
      [] f.t = "user_fn" /\ f.v = 1 -> custom_event_filter(event)

\* _check_signature(event_filter, "event_filter", "engine", "event")
check_signature(f) == f.t # "user_fn" \/ f.v = 1

(***************************************************************************)
(* Events: the enum members, in definition order                           *)
(***************************************************************************)
EventsMembers ==
    << [name |-> "EPOCH_STARTED", value |-> "epoch_started"],
       [name |-> "EPOCH_COMPLETED", value |-> "epoch_completed"],
       [name |-> "STARTED", value |-> "started"],
       [name |-> "COMPLETED", value |-> "completed"],
       [name |-> "ITERATION_STARTED", value |-> "iteration_started"],
       [name |-> "ITERATION_COMPLETED", value |-> "iteration_completed"],
       [name |-> "EXCEPTION_RAISED", value |-> "exception_raised"],
       [name |-> "GET_BATCH_STARTED", value |-> "get_batch_started"],
       [name |-> "GET_BATCH_COMPLETED", value |-> "get_batch_completed"] >>

NumKinds == Len(EventsMembers)

\* CallableEventWithFilter.__init__(value, event_filter, name) on a new object
CallableEventWithFilter_init(value, event_filter, name) ==
    [filter |-> IF event_filter = None THEN default_event_filter ELSE event_filter,
     value |-> value,
     name |-> name]

\* the enum member: __init__(value) run by Enum, which sets _name_ and _value_
EnumMember(i) ==
    CallableEventWithFilter_init(EventsMembers[i].value, None, EventsMembers[i].name)

NoEvent == [filter |-> None, value |-> "", name |-> ""]

Raise(exc) == [exc |-> exc, ret |-> NoEvent]

Return(e) == [exc |-> "none", ret |-> e]

Xor(a, b) == a # b

\* the filter chosen by lines 77-85
ChosenFilter(event_filter, every, once) ==
    LET f1 == IF every # None
              THEN IF every.v = 1 THEN None ELSE every_event_filter(every.v)
              ELSE event_filter
    IN IF once # None THEN once_event_filter(once.v) ELSE f1

\* a __call__ whose tests of every and once let zero through
CallableEventWithFilter_call_ZeroAllowed(self, event_filter, every, once) ==
    IF ~ Xor(Xor(event_filter # None, every # None), once # None)
    THEN Raise("ValueError")
    ELSE IF event_filter # None /\ ~ callable(event_filter)
    THEN Raise("TypeError")
    ELSE IF every # None /\ ~ (IsIntegral(every) /\ every.v >= 0)
    THEN Raise("ValueError")
    ELSE IF once # None /\ ~ (IsIntegral(once) /\ once.v >= 0)
    THEN Raise("ValueError")
    ELSE LET f == ChosenFilter(event_filter, every, once)
         IN IF f # None /\ ~ check_signature(f)
            THEN Raise("InvalidCallable")
            ELSE Return(CallableEventWithFilter_init(self.value, f, self.name))

\* CallableEventWithFilter.__call__(self, event_filter, every, once)
CallableEventWithFilter_call(self, event_filter, every, once) ==
    IF ~ Xor(Xor(event_filter # None, every # None), once # None)
    THEN Raise("ValueError")
    ELSE IF event_filter # None /\ ~ callable(event_filter)
    THEN Raise("TypeError")
    ELSE IF every # None /\ ~ (IsIntegral(every) /\ every.v > 0)
    THEN Raise("ValueError")
    ELSE IF once # None /\ ~ (IsIntegral(once) /\ once.v > 0)
    THEN Raise("ValueError")
    ELSE LET f == ChosenFilter(event_filter, every, once)
         IN IF f # None /\ ~ check_signature(f)
            THEN Raise("InvalidCallable")
            ELSE Return(CallableEventWithFilter_init(self.value, f, self.name))

\* an equality that also compares the filters
CallableEventWithFilter_eq_WithFilter(self, other) ==
    self.name = other.name /\ self.filter = other.filter

\* CallableEventWithFilter.__eq__(self, other), other an event
CallableEventWithFilter_eq(self, other) == self.name = other.name

\* hash of a str, as a number: the index of the name among the member names,
\* 0 for any other string
HashStr(s) ==
    IF \E i \in 1..NumKinds : EventsMembers[i].name = s
    THEN CHOOSE i \in 1..NumKinds : EventsMembers[i].name = s
    ELSE 0

\* CallableEventWithFilter.__hash__(self)
CallableEventWithFilter_hash(self) == HashStr(self.name)

(***************************************************************************)
(* Argument domains                                                        *)
(***************************************************************************)
FilterArgs == {None, UserFn(1), UserFn(2), PyStr(1)}

NumArgs == {None, PyFloat(25)} \cup {PyInt(n) : n \in -1..MaxArg}

(***************************************************************************)
(* State after import: the enum members exist, nothing else                *)
(***************************************************************************)
NoCall == [self |-> 0, event_filter |-> None, every |-> None, once |-> None,
           exc |-> "nocall", ret |-> 0]

InitEvents == [i \in 1..NumKinds |-> EnumMember(i)]

(***************************************************************************)
(* EventsList                                                              *)
(***************************************************************************)
\* references to objects, as operands of | and as a handle's event_name
EventRef(i) == [t |-> "event", v |-> i]
ListRef(i) == [t |-> "list", v |-> i]

\* isinstance(event, (Events, CallableEventWithFilter))
IsEvent(x) == x.t = "event"

\* isinstance(event_name, EventsList)
IsEventsList(x) == x.t = "list"

\* EventsList.__init__: self._events = []
EventsList_init == << >>

RaiseL(exc, l) == [exc |-> exc, ret |-> l]

ReturnL(l) == [exc |-> "none", ret |-> l]

\* an _append that inserts at the front
EventsList_append_Front(l, event) ==
    IF ~ IsEvent(event) THEN RaiseL("ValueError", l) ELSE ReturnL(<<event.v>> \o l)

\* EventsList._append(self, event): l is self._events before, ret after
EventsList_append(l, event) ==
    IF ~ IsEvent(event) THEN RaiseL("ValueError", l) ELSE ReturnL(Append(l, event.v))

\* an __or__ that empties the list when it refuses the operand
EventsList_or_ClearOnError(l, other) ==
    IF ~ IsEvent(other) THEN RaiseL("ValueError", EventsList_init)
    ELSE EventsList_append(l, other)

\* EventsList.__or__(self, other): appends to self and returns self
EventsList_or(l, other) == EventsList_append(l, other)

\* Events.__or__(self, other): EventsList() | self | other
Events_or(self, other) ==
    LET r == EventsList_or(EventsList_init, EventRef(self))
    IN IF r.exc # "none" THEN r ELSE EventsList_or(r.ret, other)

\* CallableEventWithFilter.__or__(self, other): EventsList() | self | other
CallableEventWithFilter_or(self, other) ==
    LET r == EventsList_or(EventsList_init, EventRef(self))
    IN IF r.exc # "none" THEN r ELSE EventsList_or(r.ret, other)

\* EventsList.__len__
EventsList_len(l) == Len(l)

\* EventsList.__getitem__(item) for an index 0 <= item < len
EventsList_getitem(l, item) == l[item + 1]

\* EventsList.__iter__: the members in the order iteration yields them
EventsList_iter(l) == [i \in 1..Len(l) |-> l[i]]

(***************************************************************************)
(* State                                                                   *)
(***************************************************************************)
Absent == [t |-> "absent", v |-> 0]      \* no such attribute / no value
PyDict(i) == [t |-> "dict", v |-> i]     \* 0: {}, 1: the initial times dict

\* the attributes __init__ sets, and one that only a keyword argument can set
AttrNames ==
    {"iteration", "epoch", "epoch_length", "max_epochs", "output", "batch",
     "metrics", "dataloader", "seed", "times", "alpha"}

\* a mapping that sends EPOCH_STARTED to the iteration counter
event_to_attr_EpochStartedIteration ==
    << <<8, "iteration">>, <<9, "iteration">>, <<5, "iteration">>, <<6, "iteration">>,
       <<1, "iteration">>, <<2, "epoch">>, <<3, "epoch">>, <<4, "epoch">> >>

\* State.event_to_attr: (enum member, attribute) in the order written
event_to_attr ==
    << <<8, "iteration">>, <<9, "iteration">>, <<5, "iteration">>, <<6, "iteration">>,
       <<1, "epoch">>, <<2, "epoch">>, <<3, "epoch">>, <<4, "epoch">> >>

\* the entries of dict d whose key matches `key`: same hash and __eq__
DictFind(d, key) ==
    {i \in 1..Len(d) :
       /\ CallableEventWithFilter_hash(InitEvents[d[i][1]]) = CallableEventWithFilter_hash(key)
       /\ CallableEventWithFilter_eq(InitEvents[d[i][1]], key)}

\* key in d
DictHas(d, key) == DictFind(d, key) # {}

\* d[key]
DictGet(d, key) == d[CHOOSE i \in DictFind(d, key) : TRUE][2]

\* the assignments of lines 266-275
StateDefaults ==
    [a \in AttrNames |->
       CASE a \in {"iteration", "epoch"} -> PyInt(0)
         [] a = "metrics" -> PyDict(0)
         [] a = "times" -> PyDict(1)
         [] a = "alpha" -> Absent
         [] OTHER -> None]

\* the attributes named by event_to_attr.values()
EventAttrs == {event_to_attr[i][2] : i \in 1..Len(event_to_attr)}

\* an __init__ that assigns the defaults after the keyword arguments
State_init_DefaultsLast(kwargs) ==
    [a \in AttrNames |->
       IF StateDefaults[a] # Absent THEN StateDefaults[a]
       ELSE IF a \in DOMAIN kwargs /\ kwargs[a] # Absent THEN kwargs[a] ELSE Absent]

\* State.__init__(**kwargs): the attributes of the new object; kwargs[k] is
\* Absent for a key that is not passed
State_init(kwargs) ==
    LET set == [a \in AttrNames |->
                  IF a \in DOMAIN kwargs /\ kwargs[a] # Absent
                  THEN kwargs[a] ELSE StateDefaults[a]]
    IN [a \in AttrNames |->
          IF a \in EventAttrs /\ set[a] = Absent THEN PyInt(0) ELSE set[a]]

\* State.get_event_attrib_value(self, event_name), attrs the attributes of self
get_event_attrib_value(attrs, event_name) ==
    IF ~ DictHas(event_to_attr, event_name)
    THEN [exc |-> "RuntimeError", ret |-> Absent]
    ELSE [exc |-> "none", ret |-> attrs[DictGet(event_to_attr, event_name)]]

KwKeys == {"iteration", "epoch", "max_epochs", "alpha"}

KwVals == {Absent} \cup {PyInt(n) : n \in 0..MaxVal}

NoKwargs == [k \in KwKeys |-> Absent]

NoState == [constructed |-> FALSE, fresh |-> FALSE, kwargs |-> NoKwargs,
            attrs |-> [a \in AttrNames |-> Absent]]

NoAttr == [event |-> 0, exc |-> "nocall", ret |-> Absent]

(***************************************************************************)
(* The engine's handler registry, as RemovableEventHandle uses it          *)
(***************************************************************************)
Handlers == 1..MaxHandlers

\* engine.has_event_handler(handler, event_name): r is the registry, a
\* sequence of (handler, event) in registration order; events are looked up
\* as dictionary keys, so by name
has_event_handler(r, h, e) ==
    \E i \in 1..Len(r) :
       r[i].h = h /\ CallableEventWithFilter_eq(events[r[i].e], events[e])

Matches(x, h, e) == x.h = h /\ CallableEventWithFilter_eq(events[x.e], events[e])

\* engine.remove_event_handler(handler, event_name): the registry afterwards
remove_event_handler(r, h, e) ==
    LET keep == {i \in 1..Len(r) : ~ Matches(r[i], h, e)}
        F[i \in 0..Len(r)] ==
          IF i = 0 THEN << >>
          ELSE IF i \in keep THEN Append(F[i - 1], r[i]) ELSE F[i - 1]
    IN F[Len(r)]

\* the members event_name stands for when a handler is registered
MembersOf(event_name) ==
    IF IsEventsList(event_name) THEN lists[event_name.v] ELSE <<event_name.v>>

\* engine.add_event_handler(event_name, handler): one registration per member
add_event_handler(r, event_name, h) ==
    r \o [i \in 1..Len(MembersOf(event_name)) |-> [h |-> h, e |-> MembersOf(event_name)[i]]]

(***************************************************************************)
(* RemovableEventHandle                                                    *)
(***************************************************************************)
\* RemovableEventHandle.__init__(event_name, handler, engine)
RemovableEventHandle_init(event_name, handler, engine) ==
    [event_name |-> event_name, handler |-> handler, engine |-> engine]

\* a handle together with what the properties need to remember about it: the
\* members its event name stood for when it was made, and whether a with
\* statement has entered it and not yet left
Tracked(handle, members) == handle @@ [members |-> members, entered |-> FALSE]

\* self.handler() and self.engine(): the referent, or None once it is gone
HandlerOf(handle) == IF alive.handler[handle.handler] THEN PyInt(handle.handler) ELSE None

EngineOf(handle) == IF alive.engine THEN PyInt(handle.engine) ELSE None

HasCall(h, e, ret) == [fn |-> "has_event_handler", h |-> h, e |-> e, ret |-> ret]

\* ret: whether the registration asked to be removed was present
RemoveCall(h, e, ret) == [fn |-> "remove_event_handler", h |-> h, e |-> e, ret |-> ret]

\* a removal without the has_event_handler test
remove_one_Unchecked(st, h, e) ==
    [regs |-> remove_event_handler(st.regs, h, e),
     calls |-> Append(st.calls, RemoveCall(h, e, has_event_handler(st.regs, h, e)))]

\* a removal that asks has_event_handler only afterwards
remove_one_RemoveFirst(st, h, e) ==
    [regs |-> remove_event_handler(st.regs, h, e),
     calls |-> st.calls \o <<RemoveCall(h, e, has_event_handler(st.regs, h, e)),
                              HasCall(h, e, FALSE)>>]

\* lines 342-343 and 345-346: check, then remove; st is the registry and the
\* calls made on the engine so far
remove_one(st, h, e) ==
    IF has_event_handler(st.regs, h, e)
    THEN [regs |-> remove_event_handler(st.regs, h, e),
          calls |-> st.calls \o <<HasCall(h, e, TRUE), RemoveCall(h, e, TRUE)>>]
    ELSE [regs |-> st.regs, calls |-> Append(st.calls, HasCall(h, e, FALSE))]

\* a loop that handles the first member only
remove_each_FirstOnly(st, h, l) ==
    IF Len(l) = 0 THEN st ELSE remove_one(st, h, l[1])

\* lines 341-343: for e in self.event_name
remove_each(st, h, l) ==
    LET F[i \in 0..Len(l)] == IF i = 0 THEN st ELSE remove_one(F[i - 1], h, l[i])
    IN F[Len(l)]

\* a remove() without the test of line 337
RemovableEventHandle_remove_NoLivenessTest(handle, r) ==
    LET st == [regs |-> r, calls |-> << >>]
        out == IF IsEventsList(handle.event_name)
               THEN remove_each(st, handle.handler, lists[handle.event_name.v])
               ELSE remove_one(st, handle.handler, handle.event_name.v)
    IN [regs |-> out.regs, calls |-> out.calls,
        exc |-> IF HandlerOf(handle) = None \/ EngineOf(handle) = None
                THEN "AttributeError" ELSE "none"]

\* RemovableEventHandle.remove(self), r the engine's registry: the registry
\* afterwards and the calls made on the engine
RemovableEventHandle_remove(handle, r) ==
    LET st == [regs |-> r, calls |-> << >>]
    IN IF HandlerOf(handle) = None \/ EngineOf(handle) = None
       THEN [regs |-> r, calls |-> << >>, exc |-> "none"]
       ELSE LET out == IF IsEventsList(handle.event_name)
                       THEN remove_each(st, handle.handler, lists[handle.event_name.v])
                       ELSE remove_one(st, handle.handler, handle.event_name.v)
            IN [regs |-> out.regs, calls |-> out.calls, exc |-> "none"]

\* what the last step did to the engine: the operation, the handle it used,
\* how many remove() calls on that handle it ends in a row (counted to 2), and
\* the calls it made
\* RemovableEventHandle.__enter__(self): returns self
RemovableEventHandle_enter(k) == k

\* an __exit__ that removes only when the block ended without an exception
RemovableEventHandle_exit_OnlyOnSuccess(handle, r, raised) ==
    IF raised THEN [regs |-> r, calls |-> << >>, exc |-> "none", ret |-> None]
    ELSE RemovableEventHandle_remove(handle, r) @@ [ret |-> None]

\* RemovableEventHandle.__exit__(self, *args, **kwargs): raised tells whether
\* args describe an exception; calls self.remove() and returns None
RemovableEventHandle_exit(handle, r, raised) ==
    RemovableEventHandle_remove(handle, r) @@ [ret |-> None]

\* bool(x) of what __exit__ returned: true suppresses the block's exception
Truthy(x) == x \notin {None, PyInt(0)}

NoTrace == [op |-> "noop", handle |-> 0, nth |-> 0, calls |-> << >>, exc |-> "none",
            ret |-> 0, raised |-> FALSE, propagates |-> FALSE]

Did(op, k) == [op |-> op, handle |-> k, nth |-> 0, calls |-> << >>, exc |-> "none",
               ret |-> 0, raised |-> FALSE, propagates |-> FALSE]

NoOr == [op |-> "noop", self |-> None, other |-> None, exc |-> "nocall", ret |-> 0]

(***************************************************************************)
(* Initial states                                                          *)
(***************************************************************************)
InitRest ==
    /\ callRes = NoCall
    /\ lists = << >>
    /\ orRes = NoOr
    /\ state = NoState
    /\ attrRes = NoAttr
    /\ regs = << >>
    /\ handles = << >>
    /\ alive = [handler |-> [h \in Handlers |-> TRUE], engine |-> TRUE]
    /\ trace = NoTrace

\* after import: the enum members exist, nothing else
Init == events = InitEvents /\ InitRest

\* the arguments the variant of member i is built with
VariantArgs(i) ==
    CASE i % 4 = 1 -> [event_filter |-> None, every |-> PyInt(3), once |-> None]
      [] i % 4 = 2 -> [event_filter |-> None, every |-> None, once |-> PyInt(2)]
      [] i % 4 = 3 -> [event_filter |-> UserFn(1), every |-> None, once |-> None]
      [] OTHER -> [event_filter |-> None, every |-> PyInt(1), once |-> None]

\* member i called with VariantArgs(i)
Variant(i) ==
    CallableEventWithFilter_call(InitEvents[i], VariantArgs(i).event_filter,
                                 VariantArgs(i).every, VariantArgs(i).once).ret

\* the enum members followed by one filtered variant of each
LibEvents == InitEvents \o [i \in 1..NumKinds |-> Variant(i)]

InitLib == events = LibEvents /\ InitRest

(***************************************************************************)
(* Filter construction                                                     *)
(***************************************************************************)
\* a call that stores the new filter on self and returns self
CallStep_InPlace(cap) ==
    /\ callRes.exc \in {"nocall", "none"}
    /\ Len(events) < cap
    /\ \E self \in 1..Len(events), event_filter \in FilterArgs,
          every \in NumArgs, once \in NumArgs :
         LET r == CallableEventWithFilter_call(events[self], event_filter, every, once)
         IN /\ events' = IF r.exc = "none"
                         THEN [events EXCEPT ![self].filter = r.ret.filter] ELSE events
            /\ callRes' = [self |-> self, event_filter |-> event_filter,
                           every |-> every, once |-> once, exc |-> r.exc,
                           ret |-> IF r.exc = "none" THEN self ELSE 0]
    /\ UNCHANGED <<lists, orRes, state, attrRes, regs, handles, alive, trace>>

\* events[self](event_filter=..., every=..., once=...), while fewer than cap
\* event objects exist.  An uncaught exception ends the run.
CallStep(cap) ==
    /\ callRes.exc \in {"nocall", "none"}
    /\ Len(events) < cap
    /\ \E self \in 1..Len(events), event_filter \in FilterArgs,
          every \in NumArgs, once \in NumArgs :
         LET r == CallableEventWithFilter_call(events[self], event_filter, every, once)
         IN /\ events' = IF r.exc = "none" THEN Append(events, r.ret) ELSE events
            /\ callRes' = [self |-> self, event_filter |-> event_filter,
                           every |-> every, once |-> once, exc |-> r.exc,
                           ret |-> IF r.exc = "none" THEN Len(events) + 1 ELSE 0]
    /\ UNCHANGED <<lists, orRes, state, attrRes, regs, handles, alive, trace>>

Call == CallStep(NumKinds + MaxNew)

Next == Call

Spec == Init /\ [][Next]_vars

\* ITERATION_STARTED(every=3) has been built before
InitDerived == events = Append(InitEvents, Variant(5)) /\ InitRest

CallDerived == CallStep(NumKinds + 1 + MaxNew)

SpecDerived == InitDerived /\ [][CallDerived]_vars

(***************************************************************************)
(* Combining events into groups                                            *)
(***************************************************************************)
\* the events used as operands: STARTED, COMPLETED, ITERATION_STARTED(every=3)
OperandMembers == {3, 4}
OperandVariants == {14}
OperandEvents == OperandMembers \cup OperandVariants

\* right operands: events, and values that are no event
Operands ==
    {EventRef(i) : i \in OperandEvents} \cup {None, PyStr(1)}
      \cup {ListRef(i) : i \in 1..Len(lists)}

\* the new list of a successful e | other; a failed one leaves no list behind
NewList(self, other, r, op) ==
    /\ lists' = IF r.exc = "none" THEN Append(lists, r.ret) ELSE lists
    /\ orRes' = [op |-> op, self |-> EventRef(self), other |-> other, exc |-> r.exc,
                 ret |-> IF r.exc = "none" THEN Len(lists) + 1 ELSE 0]

\* Events.X | other
EventsOr ==
    /\ orRes.exc \in {"nocall", "none"}
    /\ Len(lists) < MaxLists
    /\ \E self \in OperandMembers, other \in Operands :
         NewList(self, other, Events_or(self, other), "Events_or")
    /\ UNCHANGED <<events, callRes, state, attrRes, regs, handles, alive, trace>>

\* Events.X(...) | other
CallableEventWithFilterOr ==
    /\ orRes.exc \in {"nocall", "none"}
    /\ Len(lists) < MaxLists
    /\ \E self \in OperandVariants, other \in Operands :
         NewList(self, other, CallableEventWithFilter_or(self, other),
                 "CallableEventWithFilter_or")
    /\ UNCHANGED <<events, callRes, state, attrRes, regs, handles, alive, trace>>

\* a combine that leaves lists[g] alone and returns a new list
ListOrStep_Copy(operands, cap) ==
    /\ orRes.exc \in {"nocall", "none"}
    /\ \E g \in 1..Len(lists), other \in operands :
         /\ Len(lists[g]) < cap
         /\ LET r == EventsList_or(lists[g], other)
            IN /\ lists' = IF r.exc = "none" THEN Append(lists, r.ret) ELSE lists
               /\ orRes' = [op |-> "EventsList_or", self |-> ListRef(g), other |-> other,
                            exc |-> r.exc,
                            ret |-> IF r.exc = "none" THEN Len(lists) + 1 ELSE 0]

\* lists[g] | other, for an operand among `operands` and a list of fewer than
\* cap members: self._events is appended to and self is returned
ListOrStep(operands, cap) ==
    /\ orRes.exc \in {"nocall", "none"}
    /\ \E g \in 1..Len(lists), other \in operands :
         /\ Len(lists[g]) < cap
         /\ LET r == EventsList_or(lists[g], other)
            IN /\ lists' = [lists EXCEPT ![g] = r.ret]
               /\ orRes' = [op |-> "EventsList_or", self |-> ListRef(g), other |-> other,
                            exc |-> r.exc, ret |-> IF r.exc = "none" THEN g ELSE 0]

\* lists[g] | other
EventsListOr ==
    /\ ListOrStep(Operands, MaxLen)
    /\ UNCHANGED <<events, callRes, state, attrRes, regs, handles, alive, trace>>

NextLists == EventsOr \/ CallableEventWithFilterOr \/ EventsListOr

SpecLists == InitLib /\ [][NextLists]_vars

(***************************************************************************)
(* The engine state                                                        *)
(***************************************************************************)
\* State(**kwargs)
StateInit ==
    /\ ~ state.constructed
    /\ \E kwargs \in [KwKeys -> KwVals] :
         state' = [constructed |-> TRUE, fresh |-> TRUE, kwargs |-> kwargs,
                   attrs |-> State_init(kwargs)]
    /\ attrRes' = NoAttr
    /\ UNCHANGED <<events, callRes, lists, orRes, regs, handles, alive, trace>>

\* the engine's loop: state.iteration += 1 or state.epoch += 1
Advance ==
    /\ state.constructed
    /\ \E a \in {"iteration", "epoch"} :
         /\ state.attrs[a].v < MaxProgress
         /\ state' = [state EXCEPT !.fresh = FALSE,
                                   !.attrs[a] = PyInt(state.attrs[a].v + 1)]
    /\ attrRes' = NoAttr
    /\ UNCHANGED <<events, callRes, lists, orRes, regs, handles, alive, trace>>

\* state.get_event_attrib_value(events[e])
GetEventAttribValue ==
    /\ state.constructed
    /\ \E e \in 1..Len(events) :
         LET r == get_event_attrib_value(state.attrs, events[e])
         IN attrRes' = [event |-> e, exc |-> r.exc, ret |-> r.ret]
    /\ UNCHANGED <<events, callRes, lists, orRes, state, regs, handles, alive, trace>>

NextState == StateInit \/ Advance \/ GetEventAttribValue

SpecState == InitLib /\ [][NextState]_vars

(***************************************************************************)
(* Handles on an engine                                                    *)
(***************************************************************************)
\* the group STARTED | COMPLETED has been built
InitHandle ==
    /\ events = LibEvents
    /\ callRes = NoCall
    /\ lists = <<Events_or(3, EventRef(4)).ret>>
    /\ orRes = [op |-> "Events_or", self |-> EventRef(3), other |-> EventRef(4),
                exc |-> "none", ret |-> 1]
    /\ state = NoState
    /\ attrRes = NoAttr
    /\ regs = << >>
    /\ handles = << >>
    /\ alive = [handler |-> [h \in Handlers |-> TRUE], engine |-> TRUE]
    /\ trace = NoTrace

\* what a handler is registered on: ITERATION_STARTED(every=3), or a group
EventNames == {EventRef(14)} \cup {ListRef(g) : g \in 1..Len(lists)}

\* what a group is combined with: STARTED(event_filter=f),
\* ITERATION_STARTED(every=3), and None, which is no event
GroupOperands == {EventRef(12), EventRef(14), None}

\* handle = engine.add_event_handler(event_name, handler); handlers are
\* numbered in the order of their first registration
AddEventHandler ==
    /\ alive.engine
    /\ Len(handles) < MaxHandles
    /\ \E event_name \in EventNames, h \in Handlers :
         /\ alive.handler[h]
         /\ \A g \in 1..(h - 1) : \E k \in 1..Len(handles) : handles[k].handler = g
         /\ regs' = add_event_handler(regs, event_name, h)
         /\ handles' = Append(handles, Tracked(RemovableEventHandle_init(event_name, h, 1),
                                               MembersOf(event_name)))
    /\ trace' = Did("add", Len(handles) + 1)
    /\ UNCHANGED <<events, callRes, lists, orRes, state, attrRes, alive>>

\* handles[k].remove()
Remove ==
    /\ \E k \in 1..Len(handles) :
         LET r == RemovableEventHandle_remove(handles[k], regs)
         IN /\ regs' = r.regs
            /\ trace' = [op |-> "remove", handle |-> k,
                         nth |-> IF trace.op = "remove" /\ trace.handle = k THEN 2 ELSE 1,
                         calls |-> r.calls, exc |-> r.exc,
                         ret |-> 0, raised |-> FALSE, propagates |-> FALSE]
    /\ UNCHANGED <<events, callRes, lists, orRes, state, attrRes, handles, alive>>

\* the last reference to a handler goes: the engine's registry holds one as
\* long as the handler is registered and the engine lives
DiscardHandler ==
    /\ \E h \in Handlers :
         /\ alive.handler[h]
         /\ ~ alive.engine \/ \A i \in 1..Len(regs) : regs[i].h # h
         /\ alive' = [alive EXCEPT !.handler[h] = FALSE]
    /\ trace' = Did("discard", 0)
    /\ UNCHANGED <<events, callRes, lists, orRes, state, attrRes, regs, handles>>

\* the last reference to the engine goes
DiscardEngine ==
    /\ alive.engine
    /\ alive' = [alive EXCEPT !.engine = FALSE]
    /\ trace' = Did("discard", 0)
    /\ UNCHANGED <<events, callRes, lists, orRes, state, attrRes, regs, handles>>

\* a combine that keeps the newest MaxGroup - 1 members only
CombineGroup_DropFirst ==
    /\ orRes.exc \in {"nocall", "none"}
    /\ \E g \in 1..Len(lists), other \in GroupOperands :
         /\ Len(lists[g]) < MaxGroup
         /\ LET r == EventsList_or(Tail(lists[g]), other)
            IN /\ lists' = [lists EXCEPT ![g] = r.ret]
               /\ orRes' = [op |-> "EventsList_or", self |-> ListRef(g), other |-> other,
                            exc |-> r.exc, ret |-> IF r.exc = "none" THEN g ELSE 0]
    /\ trace' = Did("or", 0)
    /\ UNCHANGED <<events, callRes, state, attrRes, regs, handles, alive>>

\* a group is combined with a further operand while handles exist
CombineGroup ==
    /\ ListOrStep(GroupOperands, MaxGroup)
    /\ trace' = Did("or", 0)
    /\ UNCHANGED <<events, callRes, state, attrRes, regs, handles, alive>>

NextHandle == AddEventHandler \/ Remove \/ DiscardHandler \/ DiscardEngine \/ CombineGroup

SpecHandle == InitHandle /\ [][NextHandle]_vars

\* with handles[k] as x: the block is entered, x is what __enter__ returned
Enter ==
    /\ \E k \in 1..Len(handles) :
         /\ ~ handles[k].entered
         /\ handles' = [handles EXCEPT ![k].entered = TRUE]
         /\ trace' = [Did("enter", k) EXCEPT !.ret = RemovableEventHandle_enter(k)]
    /\ UNCHANGED <<events, callRes, lists, orRes, state, attrRes, regs, alive>>

\* the block of with handles[k] ends, normally or by an exception, and
\* __exit__ runs; the exception goes on unless __exit__ returned a true value
Exit ==
    /\ \E k \in 1..Len(handles), raised \in BOOLEAN :
         /\ handles[k].entered
         /\ LET r == RemovableEventHandle_exit(handles[k], regs, raised)
            IN /\ regs' = r.regs
               /\ trace' = [op |-> "exit", handle |-> k, nth |-> 0,
                            calls |-> r.calls, exc |-> r.exc, ret |-> 0,
                            raised |-> raised,
                            propagates |-> raised /\ ~ Truthy(r.ret)]
         /\ handles' = [handles EXCEPT ![k].entered = FALSE]
    /\ UNCHANGED <<events, callRes, lists, orRes, state, attrRes, alive>>

NextScope ==
    AddEventHandler \/ Enter \/ Exit \/ Remove \/ DiscardHandler \/ DiscardEngine

SpecScope == InitHandle /\ [][NextScope]_vars

(***************************************************************************)
(* The engine firing events                                                *)
(***************************************************************************)
\* handler h, registered as regs[reg] on event e, is invoked with the counter
Invoked(reg, h, e, counter) ==
    [fn |-> "handler", reg |-> reg, h |-> h, e |-> e, counter |-> counter]

\* the engine fires events[kind] with the counter: the handlers registered
\* for an event of that name are taken in registration order, and one is
\* invoked if its event's filter returns true for (engine, counter)
fire_event(r, kind, counter) ==
    LET due == {i \in 1..Len(r) :
                  /\ CallableEventWithFilter_eq(events[r[i].e], events[kind])
                  /\ CallFilter(events[r[i].e].filter, counter)}
        F[i \in 0..Len(r)] ==
          IF i = 0 THEN << >>
          ELSE IF i \in due THEN Append(F[i - 1], Invoked(i, r[i].h, r[i].e, counter))
               ELSE F[i - 1]
    IN F[Len(r)]

\* the events handlers are registered on: EPOCH_COMPLETED, ITERATION_STARTED,
\* EPOCH_COMPLETED(once=2), ITERATION_STARTED(every=3)
FireEvents == {2, 5, 11, 14}

\* the registries a run starts with: one or two registrations
FireRegs ==
    LET one == {<<[h |-> h, e |-> e]>> : h \in Handlers, e \in FireEvents}
    IN one \cup {a \o b : a \in one, b \in one}

\* State() has been constructed and the handlers are registered
InitFire ==
    /\ events = LibEvents
    /\ callRes = NoCall
    /\ lists = << >>
    /\ orRes = NoOr
    /\ state = [constructed |-> TRUE, fresh |-> TRUE, kwargs |-> NoKwargs,
                attrs |-> State_init(NoKwargs)]
    /\ attrRes = NoAttr
    /\ regs \in FireRegs
    /\ handles = << >>
    /\ alive = [handler |-> [h \in Handlers |-> TRUE], engine |-> TRUE]
    /\ trace = NoTrace

\* how often the engine fires a kind
FireCap(kind) == IF kind = 5 THEN MaxFire ELSE MaxProgress

\* the engine advances the counter of ITERATION_STARTED or EPOCH_COMPLETED by
\* one and fires the event with it; trace.calls collects the invocations
Fire ==
    /\ \E kind \in {2, 5} :
         LET a == DictGet(event_to_attr, events[kind])
             attrs == [state.attrs EXCEPT ![a] = PyInt(state.attrs[a].v + 1)]
             counter == get_event_attrib_value(attrs, events[kind])
         IN /\ state.attrs[a].v < FireCap(kind)
            /\ state' = [state EXCEPT !.fresh = FALSE, !.attrs = attrs]
            /\ attrRes' = [event |-> kind, exc |-> counter.exc, ret |-> counter.ret]
            /\ trace' = [trace EXCEPT !.op = "fire",
                                      !.calls = @ \o fire_event(regs, kind, counter.ret.v)]
    /\ UNCHANGED <<events, callRes, lists, orRes, regs, handles, alive>>

SpecFire == InitFire /\ [][Fire]_vars

(***************************************************************************)
(* Properties of filter construction (specification Spec)                  *)
(***************************************************************************)
Called == callRes.exc # "nocall"

Supplied == {a \in {"event_filter", "every", "once"} : callRes[a] # None}

\* the value given is acceptable for its argument
ValidValue(a) ==
    IF a = "event_filter" THEN callRes[a].t = "user_fn" /\ callRes[a].v = 1
    ELSE callRes[a].t = "int" /\ callRes[a].v > 0

OnlyGiven(a) == Supplied = {a} /\ ValidValue(a)

\* C1: a call with two or more of event_filter, every, once (all three
\* included) raises ValueError; a call with exactly one of them, valid,
\* succeeds and returns a filtered event of the same kind.
C1_OnlyOneArgument ==
    Called =>
      /\ (Cardinality(Supplied) >= 2 => callRes.exc = "ValueError")
      /\ (\E a \in Supplied : OnlyGiven(a)) =>
            /\ callRes.exc = "none"
            /\ events[callRes.ret].name = events[callRes.self].name
            /\ events[callRes.ret].value = events[callRes.self].value

\* C2: the filter of the event built with every=n is true exactly at the
\* counters divisible by n; with n = 1 it is the always-true default filter.
C2_EveryFilter ==
    (Called /\ OnlyGiven("every")) =>
      /\ callRes.exc = "none"
      /\ \A c \in 1..MaxCounter :
            CallFilter(events[callRes.ret].filter, c) <=> (c % callRes.every.v = 0)
      /\ callRes.every.v = 1 =>
            /\ events[callRes.ret].filter = default_event_filter
            /\ \A c \in 1..MaxCounter : CallFilter(events[callRes.ret].filter, c)

C2_Witness ==
    /\ Called /\ OnlyGiven("every") /\ callRes.every.v = 3 /\ callRes.exc = "none"
    /\ CallFilter(events[callRes.ret].filter, 6)
    /\ ~ CallFilter(events[callRes.ret].filter, 4)

\* C3: the filter of the event built with once=m is true at counter m and
\* false at every other counter, below and above m, so it is true at most once
\* over the counters.
C3_OnceFilter ==
    (Called /\ OnlyGiven("once")) =>
      /\ callRes.exc = "none"
      /\ \A c \in 1..MaxCounter :
            CallFilter(events[callRes.ret].filter, c) <=> (c = callRes.once.v)
      /\ Cardinality({c \in 1..MaxCounter :
                        CallFilter(events[callRes.ret].filter, c)}) <= 1

C3_Witness ==
    /\ Called /\ OnlyGiven("once") /\ callRes.once.v = 2 /\ callRes.exc = "none"
    /\ CallFilter(events[callRes.ret].filter, 2)
    /\ ~ CallFilter(events[callRes.ret].filter, 1)
    /\ ~ CallFilter(events[callRes.ret].filter, 3)

\* C19: with every=v or once=v as the only argument, the call raises
\* ValueError and returns no event when v is zero, negative or not integral,
\* and succeeds when v is a positive integer.
C19_PositiveInteger ==
    Called =>
      \A a \in {"every", "once"} :
        Supplied = {a} =>
          IF callRes[a].t = "int" /\ callRes[a].v > 0
          THEN /\ callRes.exc = "none"
               /\ callRes.ret = Len(events)
               /\ events[callRes.ret].name = events[callRes.self].name
          ELSE callRes.exc = "ValueError" /\ callRes.ret = 0

C19_Witness ==
    /\ Called /\ Supplied = {"every"}
    /\ callRes.every = PyInt(0)
    /\ callRes.exc = "ValueError" /\ callRes.ret = 0
    /\ Len(events) = NumKinds

\* the filter a successful call with one argument gives its result
NewFilter(c) ==
    IF c.event_filter # None THEN c.event_filter
    ELSE IF c.every # None
    THEN IF c.every.v = 1 THEN default_event_filter
         ELSE [t |-> "every_wrapper", v |-> c.every.v]
    ELSE [t |-> "once_wrapper", v |-> c.once.v]

\* C17 (specification SpecDerived): a call, successful or not, leaves every
\* existing event as it was, so the enum members keep the default filter and
\* their names and the variants built before keep their filters; the result
\* of a successful call is a further object with the name of the event
\* called and the new filter.
C17_NoMutation ==
    [][callRes' # callRes =>
         /\ \A i \in 1..Len(events) : events'[i] = events[i]
         /\ \A i \in 1..NumKinds : events'[i] = EnumMember(i)
         /\ callRes'.exc # "none" => events' = events
         /\ callRes'.exc = "none" =>
              /\ callRes'.ret = Len(events) + 1
              /\ Len(events') = Len(events) + 1
              /\ events'[callRes'.ret].name = events[callRes'.self].name
              /\ Cardinality({a \in {"event_filter", "every", "once"} :
                               callRes'[a] # None}) = 1 =>
                   events'[callRes'.ret].filter = NewFilter(callRes')]_vars

C17_Witness ==
    /\ callRes.exc = "none"
    /\ callRes.self = NumKinds + 1
    /\ callRes.ret = NumKinds + 2
    /\ events[callRes.self].filter = [t |-> "every_wrapper", v |-> 3]
    /\ events[callRes.ret].filter = [t |-> "once_wrapper", v |-> 2]
    /\ events[callRes.ret].name = "ITERATION_STARTED"
    /\ events[5].filter = default_event_filter

\* the kind an event value belongs to: the enum member with its value
KindOf(e) == CHOOSE i \in 1..NumKinds : EventsMembers[i].value = e.value

KindName(e) == EventsMembers[KindOf(e)].name

\* C8: two event values are equal iff their kinds have the same name, whatever
\* their filters, and equal values have the same hash.
C8_EqualityByKind ==
    \A a, b \in 1..Len(events) :
      /\ CallableEventWithFilter_eq(events[a], events[b])
            <=> (KindName(events[a]) = KindName(events[b]))
      /\ CallableEventWithFilter_eq(events[a], events[b]) =>
            CallableEventWithFilter_hash(events[a]) = CallableEventWithFilter_hash(events[b])

C8_Witness ==
    \E a, b \in 1..Len(events) :
      /\ events[a].filter # events[b].filter
      /\ events[a].filter.t = "every_wrapper"
      /\ KindName(events[a]) = KindName(events[b])
      /\ CallableEventWithFilter_eq(events[a], events[b])
      /\ \E c \in 1..Len(events) : ~ CallableEventWithFilter_eq(events[a], events[c])

(***************************************************************************)
(* Properties of groups (specification SpecLists)                          *)
(***************************************************************************)
\* the step completes the expression A | B | C
ChainStep ==
    /\ orRes.op \in {"Events_or", "CallableEventWithFilter_or"}
    /\ orRes.exc = "none"
    /\ orRes'.op = "EventsList_or"
    /\ orRes'.exc = "none"
    /\ orRes'.self = ListRef(orRes.ret)

\* C7: the group built as A | B | C has length 3, and iteration and the
\* indexed reads 0, 1, 2 yield A, B, C in that order, for plain kinds and
\* filtered variants alike.
C7_ChainOfThree ==
    [][ChainStep =>
          LET g == lists'[orRes'.ret]
              abc == <<orRes.self.v, orRes.other.v, orRes'.other.v>>
          IN /\ EventsList_len(g) = 3
             /\ EventsList_iter(g) = abc
             /\ \A i \in 0..2 : EventsList_getitem(g, i) = abc[i + 1]]_vars

C7_Witness ==
    /\ orRes.op = "EventsList_or" /\ orRes.exc = "none"
    /\ EventsList_len(lists[orRes.ret]) = 3
    /\ EventsList_getitem(lists[orRes.ret], 0) \in OperandVariants
    /\ EventsList_getitem(lists[orRes.ret], 1) \in OperandMembers
    /\ EventsList_getitem(lists[orRes.ret], 2) = EventsList_getitem(lists[orRes.ret], 1)

\* the step evaluates g | other for an existing group g
GroupCombine == orRes'.op = "EventsList_or"

\* C18: combining a group with a value that is no event (None, a string,
\* another group) raises ValueError and leaves every group, the one combined
\* included, with the members and the length it had.
C18_RejectedOperand ==
    [][(GroupCombine /\ ~ IsEvent(orRes'.other)) =>
          /\ orRes'.exc = "ValueError"
          /\ orRes'.ret = 0
          /\ lists' = lists
          /\ EventsList_len(lists'[orRes'.self.v]) = EventsList_len(lists[orRes'.self.v])]_vars

C18_Witness ==
    /\ orRes.op = "EventsList_or"
    /\ orRes.other = None
    /\ orRes.exc = "ValueError"
    /\ EventsList_len(lists[orRes.self.v]) = 3

\* C15 as stated: a successful g | e leaves g with the members it had.
C15_LeftOperandUnchanged ==
    [][(GroupCombine /\ orRes'.exc = "none") =>
          lists'[orRes'.self.v] = lists[orRes'.self.v]]_vars

\* C15, amended: a successful g | e appends e to g itself and returns g, and
\* makes no other group; so after r1 = g | e1 and r2 = g | e2, r1 and r2 are
\* both g, whose members are the former ones followed by e1, e2.  An event as
\* the left operand is not changed: e | x makes a new group <<e, x>>.
C15_CombineInPlace ==
    [][/\ (GroupCombine /\ orRes'.exc = "none") =>
            LET g == orRes'.self.v
            IN /\ orRes'.ret = g
               /\ lists' = [lists EXCEPT ![g] = Append(lists[g], orRes'.other.v)]
               /\ (orRes.op = "EventsList_or" /\ orRes.exc = "none" /\ orRes.self = orRes'.self) =>
                    /\ orRes.ret = orRes'.ret
                    /\ EventsList_len(lists'[g]) >= 3
                    /\ SubSeq(lists'[g], Len(lists'[g]) - 1, Len(lists'[g]))
                         = <<orRes.other.v, orRes'.other.v>>
       /\ (~ GroupCombine /\ orRes'.exc = "none") =>
            /\ orRes'.ret = Len(lists) + 1
            /\ lists' = Append(lists, <<orRes'.self.v, orRes'.other.v>>)
            /\ events' = events]_vars

C15_Witness ==
    /\ orRes.op = "EventsList_or" /\ orRes.exc = "none"
    /\ orRes.ret = orRes.self.v
    /\ lists[orRes.ret] = <<3, 4, 14, 3>>

(***************************************************************************)
(* Properties of State (specification SpecState)                           *)
(***************************************************************************)
EpochKinds == {"EPOCH_STARTED", "EPOCH_COMPLETED", "STARTED", "COMPLETED"}

IterationKinds ==
    {"ITERATION_STARTED", "ITERATION_COMPLETED", "GET_BATCH_STARTED", "GET_BATCH_COMPLETED"}

\* C9: get_event_attrib_value(e) returns the current epoch for the epoch and
\* run kinds and the current iteration for the iteration and get-batch kinds,
\* for a member or a filtered variant; for EXCEPTION_RAISED it raises
\* RuntimeError and returns nothing.
C9_EventAttribValue ==
    attrRes.exc # "nocall" =>
      LET k == KindName(events[attrRes.event])
      IN /\ k \in EpochKinds =>
              attrRes.exc = "none" /\ attrRes.ret = state.attrs["epoch"]
         /\ k \in IterationKinds =>
              attrRes.exc = "none" /\ attrRes.ret = state.attrs["iteration"]
         /\ k = "EXCEPTION_RAISED" =>
              attrRes.exc = "RuntimeError" /\ attrRes.ret = Absent

C9_Witness ==
    /\ attrRes.exc = "none"
    /\ attrRes.event > NumKinds
    /\ KindName(events[attrRes.event]) = "EPOCH_STARTED"
    /\ ~ state.fresh
    /\ state.attrs["epoch"] = PyInt(2)
    /\ state.attrs["iteration"] = PyInt(1)
    /\ attrRes.ret = PyInt(2)

\* C10: State() has iteration 0 and epoch 0; State(**kwargs) has every
\* supplied key set to its value, and iteration and epoch are 0 unless supplied.
C10_StateDefaults ==
    (state.constructed /\ state.fresh) =>
      /\ \A k \in KwKeys :
           state.kwargs[k] # Absent => state.attrs[k] = state.kwargs[k]
      /\ \A a \in {"iteration", "epoch"} :
           state.kwargs[a] = Absent => state.attrs[a] = PyInt(0)

C10_Witness ==
    /\ state.constructed /\ state.fresh
    /\ state.kwargs["iteration"] = PyInt(1)
    /\ state.kwargs["alpha"] = PyInt(1)
    /\ state.kwargs["epoch"] = Absent
    /\ state.attrs["iteration"] = PyInt(1)
    /\ state.attrs["alpha"] = PyInt(1)
    /\ state.attrs["epoch"] = PyInt(0)

(***************************************************************************)
(* Properties of handles (specification SpecHandle)                        *)
(***************************************************************************)
\* the handle the last step used, and whether both its referents exist
LastHandle == handles[trace.handle]

BothAlive(handle) == alive.handler[handle.handler] /\ alive.engine

RemoveCallsFor(calls, name) ==
    {i \in 1..Len(calls) :
       calls[i].fn = "remove_event_handler" /\ events[calls[i].e].name = name}

\* C4: a second remove() in a row, handler and engine alive, makes no
\* remove_event_handler call and every has_event_handler it makes returns
\* false; no remove() removes twice for one event, and none raises.
C4_RemoveTwice ==
    (trace.op = "remove" /\ BothAlive(LastHandle)) =>
      /\ trace.exc = "none"
      /\ \A name \in {events[e].name : e \in 1..Len(events)} :
           Cardinality(RemoveCallsFor(trace.calls, name)) <= 1
      /\ trace.nth = 2 =>
           \A i \in 1..Len(trace.calls) :
              trace.calls[i].fn = "has_event_handler" /\ trace.calls[i].ret = FALSE

C4_Witness ==
    /\ trace.op = "remove" /\ trace.nth = 2 /\ BothAlive(LastHandle)
    /\ IsEventsList(LastHandle.event_name)
    /\ Len(trace.calls) >= 2
    /\ \A i \in 1..Len(trace.calls) : trace.calls[i].ret = FALSE

\* C5: remove() with the handler or the engine gone raises nothing, calls
\* neither has_event_handler nor remove_event_handler, and leaves the
\* registrations as they were.
C5_RemoveAfterDiscard ==
    [][(trace'.op = "remove" /\ ~ BothAlive(handles[trace'.handle])) =>
          /\ trace'.exc = "none"
          /\ trace'.calls = << >>
          /\ regs' = regs]_vars

C5_Witness ==
    /\ trace.op = "remove"
    /\ ~ alive.handler[LastHandle.handler]
    /\ alive.engine
    /\ trace.calls = << >>
    /\ trace.exc = "none"

\* C6: after remove() on a handle for a group, handler and engine alive, the
\* handler is registered for no member of the group; registering a handler
\* not yet registered on STARTED | COMPLETED makes exactly two registrations,
\* one per member.
C6_GroupRemoval ==
    [][/\ (trace'.op = "remove" /\ BothAlive(handles'[trace'.handle])
             /\ IsEventsList(handles'[trace'.handle].event_name)) =>
            \A i \in 1..Len(lists'[handles'[trace'.handle].event_name.v]) :
               ~ has_event_handler(regs', handles'[trace'.handle].handler,
                                   lists'[handles'[trace'.handle].event_name.v][i])
       /\ (trace'.op = "add" /\ IsEventsList(handles'[trace'.handle].event_name)
             /\ lists[handles'[trace'.handle].event_name.v] = <<3, 4>>
             /\ \A i \in 1..Len(regs) : regs[i].h # handles'[trace'.handle].handler) =>
            LET h == handles'[trace'.handle].handler
                mine == {i \in 1..Len(regs') : regs'[i].h = h}
            IN /\ Cardinality(mine) = 2
               /\ {regs'[i].e : i \in mine} = {3, 4}]_vars

C6_Witness ==
    /\ trace.op = "remove" /\ BothAlive(LastHandle)
    /\ IsEventsList(LastHandle.event_name)
    /\ lists[LastHandle.event_name.v] = <<3, 4>>
    /\ trace.calls = <<HasCall(LastHandle.handler, 3, TRUE),
                       RemoveCall(LastHandle.handler, 3, TRUE),
                       HasCall(LastHandle.handler, 4, TRUE),
                       RemoveCall(LastHandle.handler, 4, TRUE)>>
    /\ \A i \in 1..Len(regs) : regs[i].h # LastHandle.handler

\* s is a prefix of t
IsPrefix(s, t) == Len(s) <= Len(t) /\ SubSeq(t, 1, Len(s)) = s

\* C16: whatever a step does (combine, register, remove(), discard), every
\* group's member sequence before the step is a prefix of its member sequence
\* after it, and no group disappears; reading a group (length, index,
\* iteration) gives these members and changes nothing.
C16_AppendOnly ==
    [][/\ Len(lists') >= Len(lists)
       /\ \A g \in 1..Len(lists) :
            /\ IsPrefix(lists[g], lists'[g])
            /\ EventsList_len(lists'[g]) >= EventsList_len(lists[g])
            /\ \A i \in 0..(EventsList_len(lists[g]) - 1) :
                 EventsList_getitem(lists'[g], i) = EventsList_iter(lists[g])[i + 1]]_vars

C16_Witness ==
    /\ trace.op = "remove"
    /\ IsEventsList(LastHandle.event_name)
    /\ LastHandle.members = <<3, 4>>
    /\ lists[LastHandle.event_name.v] = <<3, 4, 14>>

\* C14: remove() on a handle for a group leaves alone every registration
\* that matches none of the members the group had when the handle was made,
\* one on an event combined into the group later included.
C14_CreationMembersOnly ==
    [][(trace'.op = "remove" /\ IsEventsList(handles[trace'.handle].event_name)) =>
          LET hd == handles[trace'.handle]
              Outside(x) == \A i \in 1..Len(hd.members) :
                               ~ Matches(x, hd.handler, hd.members[i])
          IN SelectSeq(regs', Outside) = SelectSeq(regs, Outside)]_vars

\* C13: within one remove(), every remove_event_handler(handler, e) comes
\* directly after a has_event_handler(handler, e) that returned true, and the
\* registration it is asked to remove is present.
C13_RemoveOnlyAfterHas ==
    trace.op = "remove" =>
      \A i \in 1..Len(trace.calls) :
         trace.calls[i].fn = "remove_event_handler" =>
           /\ i > 1
           /\ trace.calls[i - 1] = HasCall(trace.calls[i].h, trace.calls[i].e, TRUE)
           /\ trace.calls[i].h = LastHandle.handler
           /\ trace.calls[i].ret

C13_Witness ==
    /\ trace.op = "remove"
    /\ trace.calls = <<HasCall(1, 3, TRUE), RemoveCall(1, 3, TRUE),
                       HasCall(1, 4, TRUE), RemoveCall(1, 4, TRUE),
                       HasCall(1, 12, FALSE)>>

\* C11 (specification SpecScope): entering a with block gives the handle
\* itself and changes no registration; leaving it, normally or by an
\* exception, runs remove(): __exit__ raises nothing, an exception of the
\* block goes on, and with handler and engine alive the handler is then
\* registered for none of the events the handle names.
C11_ScopedRemoval ==
    [][/\ trace'.op = "enter" =>
            /\ trace'.ret = trace'.handle
            /\ regs' = regs
       /\ trace'.op = "exit" =>
            LET hd == handles[trace'.handle]
            IN /\ trace'.exc = "none"
               /\ trace'.propagates = trace'.raised
               /\ trace'.calls = RemovableEventHandle_remove(hd, regs).calls
               /\ BothAlive(hd) =>
                    \A i \in 1..Len(MembersOf(hd.event_name)) :
                       ~ has_event_handler(regs', hd.handler, MembersOf(hd.event_name)[i])
               /\ ~ BothAlive(hd) => regs' = regs]_vars

C11_Witness ==
    /\ trace.op = "exit"
    /\ trace.raised /\ trace.propagates
    /\ BothAlive(LastHandle)
    /\ IsEventsList(LastHandle.event_name)
    /\ trace.calls = <<HasCall(1, 3, TRUE), RemoveCall(1, 3, TRUE),
                       HasCall(1, 4, TRUE), RemoveCall(1, 4, TRUE)>>
    /\ regs = << >>

\* the counters registration reg has been invoked with, in order
CountersOf(reg) ==
    LET mine == SelectSeq(trace.calls, LAMBDA c : c.reg = reg)
    IN [j \in 1..Len(mine) |-> mine[j].counter]

\* C12 (specification SpecFire): a handler registered on
\* ITERATION_STARTED(every=3) has been invoked, after the event was fired with
\* the counters 1..n in order, exactly with the multiples of 3 up to n in
\* increasing order: with 3 and 6 and no other counter once n = 6.
C12_EveryThird ==
    \A reg \in 1..Len(regs) :
       regs[reg].e = 14 =>
         /\ CountersOf(reg) = [j \in 1..(state.attrs["iteration"].v \div 3) |-> 3 * j]
         /\ state.attrs["iteration"].v = 6 => CountersOf(reg) = <<3, 6>>

C12_Witness ==
    /\ regs = <<[h |-> 1, e |-> 14]>>
    /\ events[14].name = "ITERATION_STARTED"
    /\ events[14].filter = every_event_filter(3)
    /\ state.attrs["iteration"] = PyInt(6)
    /\ trace.calls = <<Invoked(1, 1, 14, 3), Invoked(1, 1, 14, 6)>>
====
